---- MODULE Spec2Model ----
(***************************************************************************)
(* Model of the service tree of CameronHonis/service: the base Service     *)
(* (dependency wiring, event bus with upward propagation) and the          *)
(* Build/Start lifecycle broadcast.                                        *)
(*                                                                         *)
(* Every operation of Service is one action.  Dispatch is synchronous in   *)
(* the code (it returns after the whole parent chain has run), so the      *)
(* whole chain is one action; what it did is recorded in `ret`, the        *)
(* observation of the last call.                                           *)
(***************************************************************************)
EXTENDS Integers, Sequences, FiniteSets, TLC

\* ------------------------------------------------------------------ bounds
\* total number of AddEventListener calls over all nodes
MaxListeners == 2
\* number of AddEventListener calls on the node of the one-node bus
MaxNodeListeners == 3
\* how many hook calls may fail in one run
MaxFailures == 1
\* total number of successful AddDependency calls in the wiring specification
MaxWirings == 3
\* The handlers registered by callers on a graph they wired freely
MaxWiredListeners == 1
\* The handlers callers register next to the catcher handler
MaxCatcherListeners == 1
\* The events an EventCatcher has recorded when callers stop dispatching
MaxCaught == 2
\* total number of AddEventListener calls on the adder and its cutter
MaxArgumentListeners == 2

\* ------------------------------------------------------- program constants
ALL_EVENTS == "ALL_EVENTS"

Nil == "nil"
None == "none"

\* ---------------------------------------------------------------- inputs
\* The service instances: one composite per type.  "root" is a client
\* composite with one slot for an AdderService, so that chains of three
\* nodes exist; the others are the composites of the test suite.
Nodes == {"root", "adder", "cutter", "other"}

\* The instances of the wiring specification: those above, a second client
\* root, the StrangeService and the NonsenseService of the tests, the
\* EventCatcher of test_helpers, and "link", a client composite that
\* declares a field of its own type.
WiringNodes == Nodes \cup {"root2", "strange", "nonsense", "catcher", "link"}

TypeOf(n) ==
    CASE n = "root"     -> "RootService"
      [] n = "adder"    -> "AdderService"
      [] n = "cutter"   -> "CutterService"
      [] n = "other"    -> "OtherSubService"
      [] n = "root2"    -> "RootService"
      [] n = "strange"  -> "StrangeService"
      [] n = "nonsense" -> "NonsenseService"
      [] n = "catcher"  -> "EventCatcher"
      [] n = "link"     -> "LinkService"
      [] n = "probe"    -> "ProbeService"

\* The exported dependency fields of each composite type, in declaration
\* order: <<field name, declared element type>>.
SlotsOf(t) ==
    CASE t = "RootService"     -> << <<"AdderService", "AdderService">> >>
      [] t = "AdderService"    -> << <<"CutterService", "CutterService">>,
                                     <<"OtherSubService", "OtherSubService">>,
                                     <<"StrangelyNamedServiceField", "StrangeService">> >>
      [] t = "CutterService"   -> << >>
      [] t = "OtherSubService" -> << >>
      [] t = "StrangeService"  -> << >>
      [] t = "NonsenseService" -> << >>
      [] t = "EventCatcher"    -> << <<"ListeningTo", "ServiceI">> >>
      [] t = "LinkService"     -> << <<"LinkService", "LinkService">> >>
      [] t = "ProbeService"    -> << <<"EventCatcher", "EventCatcher">> >>

SlotNames(t) == { SlotsOf(t)[i][1] : i \in DOMAIN SlotsOf(t) }

SlotType(t, name) ==
    LET i == CHOOSE j \in DOMAIN SlotsOf(t) : SlotsOf(t)[j][1] = name
    IN  SlotsOf(t)[i][2]

\* The nodes callers call the bus and the lifecycle on directly: the three
\* nodes of the chain root <- adder <- cutter.  "other" is a sibling that is
\* reached only through its owner.
ChainNodes == {"root", "adder", "cutter"}

\* The variants callers listen to, and the events they dispatch: "other" is
\* a variant nobody listens to.
ListenVariants == {"someEvent", ALL_EVENTS}
EventVariants == {"someEvent", "other", ALL_EVENTS}
Payloads == {12}
NewEvent(variant, payload) == [variant |-> variant, payload |-> payload]
Events == { NewEvent(v, p) : v \in EventVariants, p \in Payloads }

\* An event handler is a function value; the bus only reads what it returns.
\* The handlers callers register: one that returns true (incrFieldA of the
\* tests) and one that returns false.
EventHandlers == {"returnsTrue", "returnsFalse"}
\* Handlers that call RemoveEventListener on the service they are registered
\* on, with the id their closure holds, and return true.
Removers == {"removes0", "removes1"}
RemovedBy(eventHandler) == IF eventHandler = "removes0" THEN 0 ELSE 1
\* eventHandler(event): the value the call returns ("catcher", the handler
\* of the EventCatcher, returns false)
CallResult(eventHandler) == eventHandler \in {"returnsTrue"} \cup Removers

VARIABLES
    parent,                    \* Service.parent
    slots,                     \* the dependency fields of the embedding composite
    attachments,               \* history: the services each AddDependency call that returned attached, in call order
    eventHandlersCount,        \* Service.eventHandlersCount
    variantByEventId,          \* Service.variantByEventId
    eventHandlerIdxByEventId,  \* Service.eventHandlerIdxByEventId
    eventHandlersByVariant,    \* Service.eventHandlersByVariant
    registered,                \* history: every registration of a node, in call order
    removed,                   \* history: the issued ids RemoveEventListener was called with
    built,                     \* lifecycle flag
    started,                   \* lifecycle flag
    buildCallCount,            \* number of OnBuild invocations
    startCallCount,            \* number of OnStart invocations
    ret,                       \* what the last call did and returned
    inflight,                  \* the calls goroutines are in the middle of
    evs,                       \* EventCatcher.evs
    evsByVariant,              \* EventCatcher.evsByVariant
    mu                         \* EventCatcher.mu: the goroutine holding it, or 0

treeVars  == <<parent, slots, attachments>>
busVars   == <<eventHandlersCount, variantByEventId, eventHandlerIdxByEventId,
               eventHandlersByVariant, registered, removed>>
lifeVars  == <<built, started, buildCallCount, startCallCount>>
catcherVars == <<evs, evsByVariant, mu>>
vars      == <<parent, slots, attachments, eventHandlersCount, variantByEventId,
               eventHandlerIdxByEventId, eventHandlersByVariant, registered,
               removed, built, started, buildCallCount, startCallCount, ret,
               inflight, evs, evsByVariant, mu>>

\* ----------------------------------------------------------------- helpers
\* m[k] := v on a Go map
MapPut(m, k, v) == [x \in (DOMAIN m) \cup {k} |-> IF x = k THEN v ELSE m[x]]
\* delete(m, k) on a Go map
MapDelete(m, k) == [x \in (DOMAIN m) \ {k} |-> m[x]]
EmptyMap == [x \in {} |-> Nil]

RECURSIVE SumOver(_, _)
SumOver(f, S) ==
    IF S = {} THEN 0
    ELSE LET x == CHOOSE y \in S : TRUE IN f[x] + SumOver(f, S \ {x})

\* -------------------------------------------------------------- NewService
\* NewEventCatcher registers its catcher for ALL_EVENTS on the new service;
\* every other constructor leaves the tables of NewService empty.
IsCatcher(n) == TypeOf(n) = "EventCatcher"

NewService(N) ==
    /\ parent = [n \in N |-> Nil]
    /\ eventHandlersCount = [n \in N |-> IF IsCatcher(n) THEN 1 ELSE 0]
    /\ variantByEventId =
           [n \in N |-> IF IsCatcher(n) THEN MapPut(EmptyMap, 0, ALL_EVENTS) ELSE EmptyMap]
    /\ eventHandlerIdxByEventId =
           [n \in N |-> IF IsCatcher(n) THEN MapPut(EmptyMap, 0, 0) ELSE EmptyMap]
    /\ eventHandlersByVariant =
           [n \in N |-> IF IsCatcher(n)
                        THEN MapPut(EmptyMap, ALL_EVENTS, <<"catcher">>)
                        ELSE EmptyMap]

\* The goroutines that call into one node, and a call none of them has begun.
\* The fields of a call are the parameters and locals of the method.
Threads == {1, 2}

NoEvent == [variant |-> None, payload |-> 0]

Idle ==
    [op |-> "idle", pc |-> "idle", eventVariant |-> None, fn |-> Nil,
     eventId |-> 0, count |-> 0, ok |-> FALSE, eventHandlerIdx |-> 0,
     eventHandlers |-> << >>, ev |-> NoEvent, read |-> << >>]

\* serialized: the callers of a node let one call return before the next
\* begins.  fatal: the runtime has stopped the process.
NoCalls == [serialized |-> TRUE, fatal |-> FALSE, t |-> [t \in Threads |-> Idle]]

\* the state after the constructors of the instances N have run
InitOn(N) ==
    /\ NewService(N)
    /\ slots = [n \in N |-> [f \in SlotNames(TypeOf(n)) |-> Nil]]
    /\ attachments = [n \in N |-> << >>]
    /\ registered =
           [n \in N |-> IF IsCatcher(n)
                        THEN << [id |-> 0, variant |-> ALL_EVENTS, idx |-> 0,
                                 fn |-> "catcher"] >>
                        ELSE << >>]
    /\ removed = [n \in N |-> {}]
    /\ built = [n \in N |-> FALSE]
    /\ started = [n \in N |-> FALSE]
    /\ buildCallCount = [n \in N |-> 0]
    /\ startCallCount = [n \in N |-> 0]
    /\ ret = [op |-> "NewService"]
    /\ evs = << >>
    /\ evsByVariant = EmptyMap
    /\ mu = 0

Init == InitOn(Nodes) /\ inflight = NoCalls

\* ----------------------------------------------------------- AddDependency
\* a value of type *t can be stored in a field of the declared type: the
\* same type, or the interface ServiceI, which every composite implements
AssignableTo(t, declared) == declared = t \/ declared = "ServiceI"

\* reflect.TypeOf(dep).Elem().Name(): the field is looked up by the name of
\* the dependency's type; Set panics when there is no such field or when the
\* dependency is not assignable to the field's type.
\* s.embeddedIn: the composite NewService was given.  The NonsenseService
\* of the tests is the literal &NonsenseService{}: its Service is the zero
\* value, whose embeddedIn is nil.
embeddedIn(s) == IF s = "nonsense" THEN Nil ELSE s

AddDependencyPanics_Never(s, dep) == FALSE

\* reflect.ValueOf(s.embeddedIn).Elem() panics on a nil embeddedIn;
\* FieldByName(fieldName).Set panics when no field has the name or the
\* field cannot hold dep
AddDependencyPanics(s, dep) ==
    \/ embeddedIn(s) = Nil
    \/ TypeOf(dep) \notin SlotNames(TypeOf(s))
    \/ ~AssignableTo(TypeOf(dep), SlotType(TypeOf(s), TypeOf(dep)))

setParent(p, s, par) == [p EXCEPT ![s] = par]

\* The field of the owner is set and the parent of the dependency is
\* assigned; Service keeps no list of its dependencies (the fields of the
\* composite are the dependencies).  `attachments` is a history of the calls
\* that returned, which no operation reads.
AddDependency(s, dep) ==
    /\ IF AddDependencyPanics(s, dep)
       THEN /\ UNCHANGED treeVars
            /\ ret' = [op |-> "AddDependency", node |-> s, dep |-> dep, panic |-> TRUE]
       ELSE /\ slots' = [slots EXCEPT ![s][TypeOf(dep)] = dep]
            /\ parent' = setParent(parent, dep, embeddedIn(s))
            /\ attachments' = [attachments EXCEPT ![s] = Append(@, dep)]
            /\ ret' = [op |-> "AddDependency", node |-> s, dep |-> dep, panic |-> FALSE]
    /\ UNCHANGED <<busVars, lifeVars, inflight, catcherVars>>

\* ------------------------------------------------------------ Dependencies
\* The loop over the fields of the embedding struct, in declaration order.
\* The embedded Service and the unexported fields are skipped.  A field of
\* pointer type converts to ServiceI whether it is set or not (an empty one
\* gives a ServiceI holding a nil pointer: Nil here); an empty field of
\* interface type does not.
FieldServices(s) ==
    LET fields == SlotsOf(TypeOf(s))
        vals == [i \in DOMAIN fields |->
                    [declared |-> fields[i][2], val |-> slots[s][fields[i][1]]]]
        kept == SelectSeq(vals, LAMBDA f : ~(f.declared = "ServiceI" /\ f.val = Nil))
    IN  [i \in DOMAIN kept |-> kept[i].val]

\* reflect.ValueOf(s.embeddedIn).Elem() panics on a nil embeddedIn
DependenciesPanics(s) == embeddedIn(s) = Nil

Dependencies(s) ==
    /\ ret' = IF DependenciesPanics(s)
              THEN [op |-> "Dependencies", node |-> s, panic |-> TRUE]
              ELSE [op |-> "Dependencies", node |-> s, panic |-> FALSE,
                    services |-> FieldServices(s)]
    /\ UNCHANGED <<treeVars, busVars, lifeVars, inflight, catcherVars>>

\* -------------------------------------------------------- AddEventListener
\* eventId = s.eventHandlersCount
NewEventId_CountsLive(s) == Cardinality(DOMAIN variantByEventId[s])

NewEventId(s) == eventHandlersCount[s]

AddEventListener(s, eventVariant, fn) ==
    /\ LET eventId == NewEventId(s)
           handlers == IF eventVariant \in DOMAIN eventHandlersByVariant[s]
                       THEN eventHandlersByVariant[s][eventVariant]
                       ELSE << >>
           eventHandlerIdx == Len(handlers)
       IN  /\ eventHandlersCount' = [eventHandlersCount EXCEPT ![s] = @ + 1]
           /\ variantByEventId' =
                  [variantByEventId EXCEPT ![s] = MapPut(@, eventId, eventVariant)]
           /\ eventHandlerIdxByEventId' =
                  [eventHandlerIdxByEventId EXCEPT ![s] = MapPut(@, eventId, eventHandlerIdx)]
           /\ eventHandlersByVariant' =
                  [eventHandlersByVariant EXCEPT
                      ![s] = MapPut(@, eventVariant, Append(handlers, fn))]
           /\ registered' = [registered EXCEPT ![s] =
                  Append(@, [id |-> eventId, variant |-> eventVariant,
                             idx |-> eventHandlerIdx, fn |-> fn])]
           /\ ret' = [op |-> "AddEventListener", eventId |-> eventId]
           /\ UNCHANGED removed
    /\ UNCHANGED <<treeVars, lifeVars, inflight, catcherVars>>

\* ----------------------------------------------------- RemoveEventListener
\* s.eventHandlersByVariant[variant][eventHandlerIdx] = nil
Tombstone_Keeps(eventHandlers, eventHandlerIdx) == eventHandlers

\* the slot cut out of the list, the later handlers moving down
Tombstone_Compacts(eventHandlers, eventHandlerIdx) ==
    SubSeq(eventHandlers, 1, eventHandlerIdx)
        \o SubSeq(eventHandlers, eventHandlerIdx + 2, Len(eventHandlers))

Tombstone(eventHandlers, eventHandlerIdx) ==
    [eventHandlers EXCEPT ![eventHandlerIdx + 1] = Nil]

\* The tables of the bus as one value, for the calls that run inside other
\* calls (a handler that removes a listener while Dispatch is running).
Bus ==
    [eventHandlersCount       |-> eventHandlersCount,
     variantByEventId         |-> variantByEventId,
     eventHandlerIdxByEventId |-> eventHandlerIdxByEventId,
     eventHandlersByVariant   |-> eventHandlersByVariant,
     removed                  |-> removed,
     evs                      |-> evs,
     evsByVariant             |-> evsByVariant]

\* the tables after the call are those of b
SetBus(b) ==
    /\ eventHandlersCount' = b.eventHandlersCount
    /\ variantByEventId' = b.variantByEventId
    /\ eventHandlerIdxByEventId' = b.eventHandlerIdxByEventId
    /\ eventHandlersByVariant' = b.eventHandlersByVariant
    /\ removed' = b.removed
    /\ evs' = b.evs
    /\ evsByVariant' = b.evsByVariant

\* the history of removals: the issued ids RemoveEventListener was called with
NoteRemoved(b, s, eventId) ==
    IF eventId < Len(registered[s])
    THEN [b EXCEPT !.removed[s] = @ \cup {eventId}]
    ELSE b

\* the three writes of RemoveEventListener for an id both maps know
RemoveKnown(b, s, eventId) ==
    LET variant == b.variantByEventId[s][eventId]
        eventHandlerIdx == b.eventHandlerIdxByEventId[s][eventId]
    IN  [b EXCEPT !.eventHandlersByVariant[s][variant] = Tombstone(@, eventHandlerIdx),
                  !.variantByEventId[s] = MapDelete(@, eventId),
                  !.eventHandlerIdxByEventId[s] = MapDelete(@, eventId)]

\* The body of RemoveEventListener on the tables b: the two lookups with
\* their early returns, then the writes.
Removal_CountsDown(b, s, eventId) ==
    LET less == [b EXCEPT !.eventHandlersCount[s] = IF @ > 0 THEN @ - 1 ELSE 0]
    IN  IF eventId \notin DOMAIN b.variantByEventId[s]
           \/ eventId \notin DOMAIN b.eventHandlerIdxByEventId[s]
        THEN NoteRemoved(less, s, eventId)
        ELSE NoteRemoved(RemoveKnown(less, s, eventId), s, eventId)

\* the id removed from the tables of every node, as if the nodes shared them
RECURSIVE RemoveOnEach(_, _, _)
RemoveOnEach(b, N, eventId) ==
    IF N = {} THEN b
    ELSE LET n == CHOOSE x \in N : TRUE
             rest == RemoveOnEach(b, N \ {n}, eventId)
         IN  IF eventId \notin DOMAIN rest.variantByEventId[n]
                \/ eventId \notin DOMAIN rest.eventHandlerIdxByEventId[n]
             THEN rest
             ELSE RemoveKnown(rest, n, eventId)

Removal_OnEveryNode(b, s, eventId) ==
    NoteRemoved(RemoveOnEach(b, DOMAIN b.variantByEventId, eventId), s, eventId)

Removal(b, s, eventId) ==
    IF eventId \notin DOMAIN b.variantByEventId[s]
       \/ eventId \notin DOMAIN b.eventHandlerIdxByEventId[s]
    THEN NoteRemoved(b, s, eventId)
    ELSE NoteRemoved(RemoveKnown(b, s, eventId), s, eventId)

RemoveEventListener(s, eventId) ==
    /\ SetBus(Removal(Bus, s, eventId))
    /\ ret' = [op |-> "RemoveEventListener", node |-> s, eventId |-> eventId]
    /\ UNCHANGED <<registered, treeVars, lifeVars, inflight, mu>>

\* ---------------------------------------------------------------- Dispatch
\* s.eventHandlersByVariant[key] in the tables b, with the map's "ok" test
HandlersFor(b, s, key) ==
    IF key \in DOMAIN b.eventHandlersByVariant[s]
    THEN b.eventHandlersByVariant[s][key]
    ELSE << >>

\* ------------------------------------------------------------ EventCatcher
\* CatchEvent, called by the catcher handler on the goroutine of the
\* Dispatch: under the mutex, the event is appended to evs and to the list
\* of its variant (made first when the map has none).
CatchEvent(b, ev) ==
    LET variant == ev.variant
        made == IF variant \in DOMAIN b.evsByVariant
                THEN b.evsByVariant
                ELSE MapPut(b.evsByVariant, variant, << >>)
    IN  [b EXCEPT !.evs = Append(@, ev),
                  !.evsByVariant = MapPut(made, variant, Append(made[variant], ev))]

\* what the call of a handler does to the tables of the service s it is
\* registered on
CallEffect(eventHandler, s, event, b) ==
    IF eventHandler \in Removers THEN Removal(b, s, RemovedBy(eventHandler))
    ELSE IF eventHandler = "catcher" THEN CatchEvent(b, event)
    ELSE b

\* The receiver of a method of node s: the Service embedded in the
\* composite, a value of type *Service that is no composite.
Receiver(s) ==
    CASE s = "root"     -> "root.Service"
      [] s = "adder"    -> "adder.Service"
      [] s = "cutter"   -> "cutter.Service"
      [] s = "other"    -> "other.Service"
      [] s = "root2"    -> "root2.Service"
      [] s = "strange"  -> "strange.Service"
      [] s = "nonsense" -> "nonsense.Service"
      [] s = "catcher"  -> "catcher.Service"
      [] s = "link"     -> "link.Service"
      [] s = "probe"    -> "probe.Service"

\* the handler is handed the receiver of Dispatch
HandlerSelf_PassesReceiver(s) == Receiver(s)

\* The first argument of a handler call (self ServiceI, event.go:32).  The
\* handlers of the tests use it as the composite they were registered on
\* (s.(*AdderService)), which is s.embeddedIn of the node whose list holds
\* the handler.
HandlerSelf(s) == embeddedIn(s)

\* One iteration of the range loop:
\*     if eventHandler == nil { continue }
\*     willPropagate = willPropagate && eventHandler(event)
\* Go's && evaluates its right operand only when the left one is true, so the
\* handler is called only while willPropagate is still true.  acc.bus is the
\* tables as the calls made so far have left them.
CallHandler_IgnoresResult(s, key, i, eventHandler, event, acc) ==
    IF eventHandler = Nil THEN acc
    ELSE IF acc.willPropagate
         THEN [invoked |-> Append(acc.invoked,
                              [node |-> s, key |-> key, idx |-> i - 1,
                               self |-> HandlerSelf(s), event |-> event,
                               result |-> CallResult(eventHandler)]),
               willPropagate |-> TRUE,
               bus |-> CallEffect(eventHandler, s, event, acc.bus)]
         ELSE acc

CallHandler(s, key, i, eventHandler, event, acc) ==
    IF eventHandler = Nil THEN acc
    ELSE IF acc.willPropagate
         THEN [invoked |-> Append(acc.invoked,
                              [node |-> s, key |-> key, idx |-> i - 1,
                               self |-> HandlerSelf(s), event |-> event,
                               result |-> CallResult(eventHandler)]),
               willPropagate |-> CallResult(eventHandler),
               bus |-> CallEffect(eventHandler, s, event, acc.bus)]
         ELSE acc

\* for _, eventHandler := range eventHandlers { ... }, from position i on.
\* The range expression is evaluated once, so the number of iterations is
\* the length of the list when the loop began; each iteration reads its
\* element from the list's array, where RemoveEventListener writes its nil,
\* so it sees the removals made by the handlers that ran before it.
RECURSIVE RunHandlers(_, _, _, _, _, _)
RunHandlers(s, key, eventHandlers, i, event, acc) ==
    IF i > Len(eventHandlers) THEN acc
    ELSE RunHandlers(s, key, eventHandlers, i + 1, event,
                     CallHandler(s, key, i, HandlersFor(acc.bus, s, key)[i],
                                 event, acc))

\* The two loops of Dispatch at one node, on the tables b: the handlers of
\* the event's variant, then the handlers of ALL_EVENTS.
DispatchLocal(s, event, b) ==
    LET exact == RunHandlers(s, event.variant, HandlersFor(b, s, event.variant), 1,
                             event,
                             [invoked |-> << >>, willPropagate |-> TRUE, bus |-> b])
    IN  RunHandlers(s, ALL_EVENTS, HandlersFor(exact.bus, s, ALL_EVENTS), 1,
                    event, exact)

\* propagateEvent: the node Dispatch is called on next, or Nil
propagateEvent_Never(s) == Nil

propagateEvent(s) == parent[s]

\* Dispatch on s and, through propagateEvent, on its ancestors.  depth counts
\* the nested calls; a parent cycle would recurse until the stack overflows.
\* the event handed to the parent before the node's own handlers are counted
RECURSIVE DispatchFrom_ParentFirst(_, _, _, _)
DispatchFrom_ParentFirst(s, event, depth, b) ==
    LET here == DispatchLocal(s, event, b)
        next == IF here.willPropagate THEN propagateEvent(s) ELSE Nil
    IN  IF next = Nil
        THEN [visited |-> <<s>>, invoked |-> here.invoked, overflow |-> FALSE,
              bus |-> here.bus]
        ELSE IF depth >= Cardinality(Nodes)
        THEN [visited |-> <<s>>, invoked |-> here.invoked, overflow |-> TRUE,
              bus |-> here.bus]
        ELSE LET up == DispatchFrom_ParentFirst(next, event, depth + 1, here.bus)
             IN  [visited |-> <<s>> \o up.visited,
                  invoked |-> up.invoked \o here.invoked,
                  overflow |-> up.overflow,
                  bus |-> up.bus]

RECURSIVE DispatchFrom(_, _, _, _)
DispatchFrom(s, event, depth, b) ==
    LET here == DispatchLocal(s, event, b)
        next == IF here.willPropagate THEN propagateEvent(s) ELSE Nil
    IN  IF next = Nil
        THEN [visited |-> <<s>>, invoked |-> here.invoked, overflow |-> FALSE,
              bus |-> here.bus]
        ELSE IF depth >= Cardinality(Nodes)
        THEN [visited |-> <<s>>, invoked |-> here.invoked, overflow |-> TRUE,
              bus |-> here.bus]
        ELSE LET up == DispatchFrom(next, event, depth + 1, here.bus)
             IN  [visited |-> <<s>> \o up.visited,
                  invoked |-> here.invoked \o up.invoked,
                  overflow |-> up.overflow,
                  bus |-> up.bus]

Dispatch(s, event) ==
    /\ LET d == DispatchFrom(s, event, 1, Bus)
       IN  /\ ret' = [op |-> "Dispatch", node |-> s, event |-> event,
                      visited |-> d.visited, invoked |-> d.invoked,
                      overflow |-> d.overflow]
           /\ SetBus(d.bus)
    /\ UNCHANGED <<registered, treeVars, lifeVars, inflight, mu>>

\* ----------------------------------------------------------- specification
\* The builder of the tests (CreateServices) attaches three services to the
\* adder, one call at a time.  The third call, with the StrangeService,
\* panics in AddDependency: the builder gets no further than that call.
WiringOrder == << <<"adder", "cutter">>, <<"adder", "other">>, <<"adder", "strange">> >>

\* the calls of the builder that have returned
Wired == Len(attachments["adder"])

\* A client composite that declares a field AdderService *AdderService
\* attaches the adder once the adder has its dependencies; the tests have no
\* such composite, chains of three nodes need one.
RootWiring == <<"root", "adder">>

\* The event bus on a tree under construction.  RemoveEventListener is called
\* with the ids the node has issued and with one it has not.
Next ==
    \/ /\ Wired < Len(WiringOrder)
       /\ AddDependency(WiringOrder[Wired + 1][1], WiringOrder[Wired + 1][2])
    \/ /\ Wired = Len(WiringOrder) - 1
       /\ attachments[RootWiring[1]] = << >>
       /\ AddDependency(RootWiring[1], RootWiring[2])
    \/ /\ SumOver(eventHandlersCount, Nodes) < MaxListeners
       /\ \E s \in ChainNodes, v \in ListenVariants, fn \in EventHandlers :
              AddEventListener(s, v, fn)
    \/ \E s \in ChainNodes : \E id \in 0 .. eventHandlersCount[s] :
           RemoveEventListener(s, id)
    \/ \E s \in Nodes, e \in Events : Dispatch(s, e)

Spec == Init /\ [][Next]_vars

\* The bus of one node without parent: callers register, remove (issued
\* ids and one that is not) and dispatch.
BusNode == "cutter"

NextNodeBus ==
    \/ /\ eventHandlersCount[BusNode] < MaxNodeListeners
       /\ \E v \in ListenVariants, fn \in EventHandlers : AddEventListener(BusNode, v, fn)
    \/ \E id \in 0 .. eventHandlersCount[BusNode] : RemoveEventListener(BusNode, id)
    \/ \E e \in Events : Dispatch(BusNode, e)

SpecNodeBus == Init /\ [][NextNodeBus]_vars

\* The bus of the cutter and the adder that owns it: callers register on
\* both and dispatch events of either payload on both.
ArgumentNodes == {"adder", "cutter"}
ArgumentPayloads == {12, 13}
ArgumentEvents == { NewEvent(v, p) : v \in EventVariants, p \in ArgumentPayloads }

NextArguments ==
    \/ /\ parent["cutter"] = Nil
       /\ AddDependency("adder", "cutter")
    \/ /\ SumOver(eventHandlersCount, ArgumentNodes) < MaxArgumentListeners
       /\ \E s \in ArgumentNodes, v \in ListenVariants, fn \in EventHandlers :
              AddEventListener(s, v, fn)
    \/ \E s \in ArgumentNodes, e \in ArgumentEvents : Dispatch(s, e)

SpecArguments == Init /\ [][NextArguments]_vars

\* The bus of one node whose handlers may remove listeners of the node
\* while a Dispatch is running.
ReentrantHandlers == EventHandlers \cup Removers

NextReentrant ==
    \/ /\ eventHandlersCount[BusNode] < MaxNodeListeners
       /\ \E v \in ListenVariants, fn \in ReentrantHandlers :
              AddEventListener(BusNode, v, fn)
    \/ \E e \in Events : Dispatch(BusNode, e)

SpecReentrant == Init /\ [][NextReentrant]_vars

\* --------------------------------------------------------------- lifecycle
\* OnBuild / OnStart of the composites: the hook counts its calls.
CallHook(calls, n) == [calls EXCEPT ![n] = @ + 1]

\* "if already built, no-op"
AlreadyDone(st, n) == st.done[n]

\* "mark built"
MarkDone(st, n) == [st EXCEPT !.done[n] = TRUE]

\* the hook of n failed: the failure ends the call, n is not marked
HookFailed_MarksDone(st, n) == [st EXCEPT !.failed = TRUE, !.done[n] = TRUE]

HookFailed(st, n) == [st EXCEPT !.failed = TRUE]

\* The dependencies of n the lifecycle recurses into.  The controller
\* programs against the listing of dependencies (spec 4.4), which is
\* Dependencies(): the fields of the composite in declaration order.  The
\* entry of a field that is not set is no dependency.
LifecycleDependencies(n) == SelectSeq(FieldServices(n), LAMBDA d : d # Nil)

\* One lifecycle broadcast from node n.  st.done is the flag (built or
\* started), st.calls the hooks' call counts, st.hooks the hooks called by
\* this broadcast, in order.  `failing` is the node whose hook fails when it
\* is called (None: no hook fails).  A node that is already done is skipped;
\* otherwise its hook is called, the node is marked, and the broadcast goes
\* on to its dependencies in the order n lists them.  A failing hook ends the
\* whole call and leaves its node unmarked.
RECURSIVE Broadcast(_, _, _), BroadcastDeps(_, _, _, _), BroadcastDeps_FirstOnly(_, _, _, _)
Broadcast(n, st, failing) ==
    IF st.failed \/ AlreadyDone(st, n) THEN st
    ELSE LET called == [st EXCEPT !.calls = CallHook(@, n), !.hooks = Append(@, n)]
         IN  IF n = failing
             THEN HookFailed(called, n)
             ELSE BroadcastDeps(LifecycleDependencies(n), 1, MarkDone(called, n), failing)

BroadcastDeps_FirstOnly(deps, i, st, failing) ==
    IF i > Len(deps) \/ i > 1 \/ st.failed THEN st
    ELSE BroadcastDeps_FirstOnly(deps, i + 1, Broadcast(deps[i], st, failing), failing)

BroadcastDeps(deps, i, st, failing) ==
    IF i > Len(deps) \/ st.failed THEN st
    ELSE BroadcastDeps(deps, i + 1, Broadcast(deps[i], st, failing), failing)

\* the hook calls that have failed so far
Done01(done, n) == IF done[n] THEN 1 ELSE 0
FailedCalls ==
    SumOver([n \in Nodes |-> (buildCallCount[n] - Done01(built, n))
                              + (startCallCount[n] - Done01(started, n))], Nodes)

\* Build() on s; a hook named as failing is one the call reaches.
Build(s, failing) ==
    /\ failing # None => FailedCalls < MaxFailures
    /\ LET r == Broadcast(s, [done |-> built, calls |-> buildCallCount,
                              hooks |-> << >>, failed |-> FALSE], failing)
       IN  /\ failing # None => r.failed
           /\ built' = r.done
           /\ buildCallCount' = r.calls
           /\ ret' = [op |-> "Build", node |-> s, hooks |-> r.hooks, failed |-> r.failed]
    /\ UNCHANGED <<started, startCallCount, treeVars, busVars, inflight, catcherVars>>

\* Start() guarding and marking with the flag of Build()
Start_SharesBuiltFlag(s, failing) ==
    /\ failing # None => FailedCalls < MaxFailures
    /\ LET r == Broadcast(s, [done |-> built, calls |-> startCallCount,
                              hooks |-> << >>, failed |-> FALSE], failing)
       IN  /\ failing # None => r.failed
           /\ built' = r.done
           /\ startCallCount' = r.calls
           /\ ret' = [op |-> "Start", node |-> s, hooks |-> r.hooks, failed |-> r.failed]
    /\ UNCHANGED <<started, buildCallCount, treeVars, busVars, inflight, catcherVars>>

\* Start() on s
Start(s, failing) ==
    /\ failing # None => FailedCalls < MaxFailures
    /\ LET r == Broadcast(s, [done |-> started, calls |-> startCallCount,
                              hooks |-> << >>, failed |-> FALSE], failing)
       IN  /\ failing # None => r.failed
           /\ started' = r.done
           /\ startCallCount' = r.calls
           /\ ret' = [op |-> "Start", node |-> s, hooks |-> r.hooks, failed |-> r.failed]
    /\ UNCHANGED <<built, buildCallCount, treeVars, busVars, inflight, catcherVars>>

\* The services in the fields of s
Attached(s) == { FieldServices(s)[i] : i \in DOMAIN FieldServices(s) } \ {Nil}

\* The lifecycle on a tree that callers wire (each dependency once, into a
\* field its owner declares for it, in any order), build and start in any
\* order.
NextLifecycle ==
    \/ \E s \in Nodes, dep \in Nodes :
           /\ dep \notin Attached(s)
           /\ ~AddDependencyPanics(s, dep)
           /\ AddDependency(s, dep)
    \/ \E s \in ChainNodes, failing \in Nodes \cup {None} : Build(s, failing)
    \/ \E s \in ChainNodes, failing \in Nodes \cup {None} : Start(s, failing)

SpecLifecycle == Init /\ [][NextLifecycle]_vars

\* ------------------------------------------------------------------ wiring
\* the number of AddDependency calls that have returned
RECURSIVE SumLen(_, _)
SumLen(f, S) ==
    IF S = {} THEN 0
    ELSE LET x == CHOOSE y \in S : TRUE IN Len(f[x]) + SumLen(f, S \ {x})

Wirings == SumLen(attachments, WiringNodes)

\* Callers attach any instance to any instance, again and again, and read
\* the dependencies of any instance.
NextWiring ==
    \/ /\ Wirings < MaxWirings
       /\ \E s \in WiringNodes, dep \in WiringNodes : AddDependency(s, dep)
    \/ \E s \in WiringNodes : Dependencies(s)

InitWiring == InitOn(WiringNodes) /\ inflight = NoCalls

SpecWiring == InitWiring /\ [][NextWiring]_vars

\* ------------------------------------------- goroutines calling one node
\* s.eventHandlersByVariant[key] as the tables are now (the zero value, an
\* empty list, when the map has no such key)
HandlersOf(s, key) == HandlersFor(Bus, s, key)

\* Service has no mutex and its methods start no goroutine: two goroutines
\* of the callers run the statements of their calls on BusNode in any
\* interleaving, unless the callers serialize them.  Each statement below is
\* one step; s.eventHandlersCount++ is a read and a write.
Call(t) == inflight.t[t]
At(t, pc) == ~inflight.fatal /\ Call(t).pc = pc
Goto(t, c) == inflight' = [inflight EXCEPT !.t[t] = c]
Running(t) == Call(t).pc \notin {"idle", "done"}

\* a goroutine begins a call: with serialized callers only when no other
\* call on the node is running
MayBegin(t) ==
    /\ At(t, "idle")
    /\ inflight.serialized => \A u \in Threads : ~Running(u)

BeginAddEventListener(t, eventVariant, fn) ==
    /\ MayBegin(t)
    /\ Goto(t, [Call(t) EXCEPT !.op = "AddEventListener", !.pc = "eventId",
                               !.eventVariant = eventVariant, !.fn = fn])
    /\ UNCHANGED <<busVars, treeVars, lifeVars, ret, catcherVars>>

BeginRemoveEventListener(t, eventId) ==
    /\ MayBegin(t)
    /\ Goto(t, [Call(t) EXCEPT !.op = "RemoveEventListener", !.pc = "variant",
                               !.eventId = eventId])
    /\ UNCHANGED <<busVars, treeVars, lifeVars, ret, catcherVars>>

\* eventId = s.eventHandlersCount
AddReadEventId(t) ==
    /\ At(t, "eventId")
    /\ Goto(t, [Call(t) EXCEPT !.eventId = eventHandlersCount[BusNode],
                               !.pc = "count"])
    /\ UNCHANGED <<busVars, treeVars, lifeVars, ret, catcherVars>>

\* s.eventHandlersCount++ : the read
AddReadCount(t) ==
    /\ At(t, "count")
    /\ Goto(t, [Call(t) EXCEPT !.count = eventHandlersCount[BusNode],
                               !.pc = "count++"])
    /\ UNCHANGED <<busVars, treeVars, lifeVars, ret, catcherVars>>

\* s.eventHandlersCount++ : the write
\* the write forgotten
AddWriteCount_Skips(t) ==
    /\ At(t, "count++")
    /\ Goto(t, [Call(t) EXCEPT !.pc = "ok"])
    /\ UNCHANGED <<busVars, treeVars, lifeVars, ret, catcherVars>>

AddWriteCount(t) ==
    /\ At(t, "count++")
    /\ eventHandlersCount' =
           [eventHandlersCount EXCEPT ![BusNode] = Call(t).count + 1]
    /\ Goto(t, [Call(t) EXCEPT !.pc = "ok"])
    /\ UNCHANGED <<variantByEventId, eventHandlerIdxByEventId,
                   eventHandlersByVariant, registered, removed,
                   treeVars, lifeVars, ret, catcherVars>>

\* if _, ok := s.eventHandlersByVariant[eventVariant]; !ok
AddCheckList(t) ==
    /\ At(t, "ok")
    /\ LET ok == Call(t).eventVariant \in DOMAIN eventHandlersByVariant[BusNode]
       IN  Goto(t, [Call(t) EXCEPT !.ok = ok,
                                   !.pc = IF ok THEN "eventHandlerIdx" ELSE "make"])
    /\ UNCHANGED <<busVars, treeVars, lifeVars, ret, catcherVars>>

\* s.eventHandlersByVariant[eventVariant] = make([]EventHandler, 0)
AddMakeList(t) ==
    /\ At(t, "make")
    /\ eventHandlersByVariant' =
           [eventHandlersByVariant EXCEPT
               ![BusNode] = MapPut(@, Call(t).eventVariant, << >>)]
    /\ Goto(t, [Call(t) EXCEPT !.pc = "eventHandlerIdx"])
    /\ UNCHANGED <<eventHandlersCount, variantByEventId, eventHandlerIdxByEventId,
                   registered, removed, treeVars, lifeVars, ret, catcherVars>>

\* eventHandlerIdx := len(s.eventHandlersByVariant[eventVariant])
AddReadLen(t) ==
    /\ At(t, "eventHandlerIdx")
    /\ Goto(t, [Call(t) EXCEPT
                   !.eventHandlerIdx =
                       Len(HandlersOf(BusNode, Call(t).eventVariant)),
                   !.pc = "variantByEventId"])
    /\ UNCHANGED <<busVars, treeVars, lifeVars, ret, catcherVars>>

\* s.variantByEventId[eventId] = eventVariant
AddPutVariant(t) ==
    /\ At(t, "variantByEventId")
    /\ variantByEventId' =
           [variantByEventId EXCEPT
               ![BusNode] = MapPut(@, Call(t).eventId, Call(t).eventVariant)]
    /\ Goto(t, [Call(t) EXCEPT !.pc = "eventHandlerIdxByEventId"])
    /\ UNCHANGED <<eventHandlersCount, eventHandlerIdxByEventId,
                   eventHandlersByVariant, registered, removed,
                   treeVars, lifeVars, ret, catcherVars>>

\* s.eventHandlerIdxByEventId[eventId] = eventHandlerIdx
AddPutIdx(t) ==
    /\ At(t, "eventHandlerIdxByEventId")
    /\ eventHandlerIdxByEventId' =
           [eventHandlerIdxByEventId EXCEPT
               ![BusNode] = MapPut(@, Call(t).eventId, Call(t).eventHandlerIdx)]
    /\ Goto(t, [Call(t) EXCEPT !.pc = "read"])
    /\ UNCHANGED <<eventHandlersCount, variantByEventId,
                   eventHandlersByVariant, registered, removed,
                   treeVars, lifeVars, ret, catcherVars>>

\* append(s.eventHandlersByVariant[eventVariant], fn): the list is read
AddReadList(t) ==
    /\ At(t, "read")
    /\ Goto(t, [Call(t) EXCEPT
                   !.eventHandlers = HandlersOf(BusNode, Call(t).eventVariant),
                   !.pc = "append"])
    /\ UNCHANGED <<busVars, treeVars, lifeVars, ret, catcherVars>>

\* s.eventHandlersByVariant[eventVariant] = append(..., fn): a list of
\* at most two handlers is full (cap 0, 1, 2), so append copies what was
\* read into a new array and the map gets the new list
AddAppend(t) ==
    /\ At(t, "append")
    /\ eventHandlersByVariant' =
           [eventHandlersByVariant EXCEPT
               ![BusNode] = MapPut(@, Call(t).eventVariant,
                                   Append(Call(t).eventHandlers, Call(t).fn))]
    /\ Goto(t, [Call(t) EXCEPT !.pc = "return"])
    /\ UNCHANGED <<eventHandlersCount, variantByEventId, eventHandlerIdxByEventId,
                   registered, removed, treeVars, lifeVars, ret, catcherVars>>

\* return eventId
AddReturn(t) ==
    /\ At(t, "return") /\ Call(t).op = "AddEventListener"
    /\ registered' = [registered EXCEPT ![BusNode] =
           Append(@, [id |-> Call(t).eventId, variant |-> Call(t).eventVariant,
                      idx |-> Call(t).eventHandlerIdx, fn |-> Call(t).fn])]
    /\ ret' = [op |-> "AddEventListener", eventId |-> Call(t).eventId]
    /\ Goto(t, [Call(t) EXCEPT !.pc = "done"])
    /\ UNCHANGED <<eventHandlersCount, variantByEventId, eventHandlerIdxByEventId,
                   eventHandlersByVariant, removed, treeVars, lifeVars, catcherVars>>

\* variant, ok := s.variantByEventId[eventId]; if !ok { return }
RemoveReadVariant(t) ==
    /\ At(t, "variant")
    /\ LET ok == Call(t).eventId \in DOMAIN variantByEventId[BusNode]
       IN  Goto(t, [Call(t) EXCEPT
                       !.ok = ok,
                       !.eventVariant =
                           IF ok THEN variantByEventId[BusNode][Call(t).eventId]
                           ELSE None,
                       !.pc = IF ok THEN "idx" ELSE "return"])
    /\ UNCHANGED <<busVars, treeVars, lifeVars, ret, catcherVars>>

\* eventHandlerIdx, ok := s.eventHandlerIdxByEventId[eventId]; if !ok { return }
RemoveReadIdx(t) ==
    /\ At(t, "idx")
    /\ LET ok == Call(t).eventId \in DOMAIN eventHandlerIdxByEventId[BusNode]
       IN  Goto(t, [Call(t) EXCEPT
                       !.ok = ok,
                       !.eventHandlerIdx =
                           IF ok THEN eventHandlerIdxByEventId[BusNode][Call(t).eventId]
                           ELSE 0,
                       !.pc = IF ok THEN "nil" ELSE "return"])
    /\ UNCHANGED <<busVars, treeVars, lifeVars, ret, catcherVars>>

\* s.eventHandlersByVariant[variant][eventHandlerIdx] = nil (an index past
\* the end of the list stops the process)
RemoveTombstone(t) ==
    /\ At(t, "nil")
    /\ LET eventHandlers == HandlersOf(BusNode, Call(t).eventVariant)
       IN  IF Call(t).eventHandlerIdx < Len(eventHandlers)
           THEN /\ eventHandlersByVariant' =
                       [eventHandlersByVariant EXCEPT
                           ![BusNode][Call(t).eventVariant] =
                               Tombstone(@, Call(t).eventHandlerIdx)]
                /\ Goto(t, [Call(t) EXCEPT !.pc = "delete"])
           ELSE /\ inflight' = [inflight EXCEPT !.fatal = TRUE]
                /\ UNCHANGED eventHandlersByVariant
    /\ UNCHANGED <<eventHandlersCount, variantByEventId, eventHandlerIdxByEventId,
                   registered, removed, treeVars, lifeVars, ret, catcherVars>>

\* delete(s.variantByEventId, eventId)
RemoveDeleteVariant(t) ==
    /\ At(t, "delete")
    /\ variantByEventId' =
           [variantByEventId EXCEPT ![BusNode] = MapDelete(@, Call(t).eventId)]
    /\ Goto(t, [Call(t) EXCEPT !.pc = "delete2"])
    /\ UNCHANGED <<eventHandlersCount, eventHandlerIdxByEventId,
                   eventHandlersByVariant, registered, removed,
                   treeVars, lifeVars, ret, catcherVars>>

\* delete(s.eventHandlerIdxByEventId, eventId)
RemoveDeleteIdx(t) ==
    /\ At(t, "delete2")
    /\ eventHandlerIdxByEventId' =
           [eventHandlerIdxByEventId EXCEPT ![BusNode] = MapDelete(@, Call(t).eventId)]
    /\ Goto(t, [Call(t) EXCEPT !.pc = "return"])
    /\ UNCHANGED <<eventHandlersCount, variantByEventId,
                   eventHandlersByVariant, registered, removed,
                   treeVars, lifeVars, ret, catcherVars>>

\* RemoveEventListener returns
RemoveReturn(t) ==
    /\ At(t, "return") /\ Call(t).op = "RemoveEventListener"
    /\ removed' = [removed EXCEPT ![BusNode] = @ \cup {Call(t).eventId}]
    /\ ret' = [op |-> "RemoveEventListener", node |-> BusNode,
               eventId |-> Call(t).eventId]
    /\ Goto(t, [Call(t) EXCEPT !.pc = "done"])
    /\ UNCHANGED <<eventHandlersCount, variantByEventId, eventHandlerIdxByEventId,
                   eventHandlersByVariant, registered, treeVars, lifeVars, catcherVars>>

\* The map a statement is about to read or write.  Go's maps are not safe
\* for concurrent use: when an access overlaps a write of the same map the
\* runtime may stop the process ("concurrent map writes").
MapRead(pc) ==
    CASE pc \in {"ok", "eventHandlerIdx", "read", "nil"} -> "eventHandlersByVariant"
      [] pc = "variant" -> "variantByEventId"
      [] pc = "idx" -> "eventHandlerIdxByEventId"
      [] OTHER -> None

MapWritten(pc) ==
    CASE pc \in {"make", "append"} -> "eventHandlersByVariant"
      [] pc \in {"variantByEventId", "delete"} -> "variantByEventId"
      [] pc \in {"eventHandlerIdxByEventId", "delete2"} -> "eventHandlerIdxByEventId"
      [] OTHER -> None

ConcurrentMapAccess ==
    /\ ~inflight.fatal
    /\ \E t, u \in Threads :
           /\ t # u
           /\ MapWritten(Call(t).pc) # None
           /\ MapWritten(Call(t).pc) \in {MapWritten(Call(u).pc), MapRead(Call(u).pc)}
    /\ inflight' = [inflight EXCEPT !.fatal = TRUE]
    /\ UNCHANGED <<busVars, treeVars, lifeVars, ret, catcherVars>>

\* One handler is registered before the goroutines start; each goroutine
\* then makes one call on the node.
NextThreads ==
    \/ /\ eventHandlersCount[BusNode] = 0
       /\ AddEventListener(BusNode, "someEvent", "returnsTrue")
    \/ /\ eventHandlersCount[BusNode] > 0
       /\ \E t \in Threads :
              \/ \E eventVariant \in ListenVariants, fn \in EventHandlers :
                     BeginAddEventListener(t, eventVariant, fn)
              \/ BeginRemoveEventListener(t, 0)
    \/ \E t \in Threads :
           \/ AddReadEventId(t) \/ AddReadCount(t) \/ AddWriteCount(t)
           \/ AddCheckList(t) \/ AddMakeList(t) \/ AddReadLen(t)
           \/ AddPutVariant(t) \/ AddPutIdx(t)
           \/ AddReadList(t) \/ AddAppend(t) \/ AddReturn(t)
           \/ RemoveReadVariant(t) \/ RemoveReadIdx(t) \/ RemoveTombstone(t)
           \/ RemoveDeleteVariant(t) \/ RemoveDeleteIdx(t) \/ RemoveReturn(t)
    \/ ConcurrentMapAccess

InitThreads ==
    /\ InitOn(Nodes)
    /\ \E serialized \in BOOLEAN :
           inflight = [NoCalls EXCEPT !.serialized = serialized]

SpecThreads == InitThreads /\ [][NextThreads]_vars

\* --------------------------------------------------- the bus on any graph
\* Callers wire any instances as above, register one more handler on a node
\* that can get a parent, and dispatch on any node of the graph they made
\* (the EventCatcher, which no call here can wire to another node, has a
\* specification of its own below).
WiredListenNodes == {"adder", "link"}

NextWiredBus ==
    \/ /\ Wirings < MaxWirings
       /\ \E s \in WiringNodes, dep \in WiringNodes : AddDependency(s, dep)
    \/ /\ SumOver(eventHandlersCount, WiredListenNodes) < MaxWiredListeners
       /\ \E s \in WiredListenNodes, fn \in EventHandlers :
              AddEventListener(s, ALL_EVENTS, fn)
    \/ \E s \in WiringNodes \ {"catcher"}, event \in Events : Dispatch(s, event)

SpecWiredBus == InitWiring /\ [][NextWiredBus]_vars

\* -------------------------------------------------- the EventCatcher alone
\* The instances of the EventCatcher specification: the catcher, the adder
\* it is to listen to, the adder's cutter, and "probe", a client composite
\* that declares a field EventCatcher *EventCatcher (the catcher's parent).
CatcherNodes == {"catcher", "adder", "cutter", "probe"}

CatcherWirings == { <<"catcher", "adder">>, <<"adder", "cutter">>, <<"probe", "catcher">> }

\* FlushEvents: under the mutex, both collections are made anew
FlushEvents ==
    /\ evs' = << >>
    /\ evsByVariant' = EmptyMap
    /\ ret' = [op |-> "FlushEvents"]
    /\ UNCHANGED <<busVars, treeVars, lifeVars, inflight, mu>>

\* what the readers return (each holds the mutex for its whole body)
EventsCount == Len(evs)
EventsByVariantCount(eVar) ==
    IF eVar \in DOMAIN evsByVariant THEN Len(evsByVariant[eVar]) ELSE 0
NthEvent(idx) == evs[idx + 1]
LastEvent == evs[Len(evs)]

NextCatcher ==
    \/ \E w \in CatcherWirings :
           w[2] \notin Attached(w[1]) /\ AddDependency(w[1], w[2])
    \/ /\ SumOver(eventHandlersCount, CatcherNodes) < 1 + MaxCatcherListeners
       /\ \E s \in {"catcher", "probe"}, v \in ListenVariants, fn \in EventHandlers :
              AddEventListener(s, v, fn)
    \/ /\ Len(evs) < MaxCaught
       /\ \E s \in CatcherNodes \ {"probe"}, event \in Events : Dispatch(s, event)
    \/ FlushEvents

InitCatcher == InitOn(CatcherNodes) /\ inflight = NoCalls

SpecCatcher == InitCatcher /\ [][NextCatcher]_vars

\* ------------------------------------- goroutines calling one EventCatcher
\* Goroutines dispatch on one EventCatcher and read its counts.  Dispatch
\* only reads the tables of the Service; the catcher handler it calls runs
\* CatchEvent on the goroutine of the Dispatch.  Every method of the
\* EventCatcher begins with ec.mu.Lock() and defers ec.mu.Unlock(); the
\* statements in between are one step each (an append is a read and a
\* write).
CatcherThreads == {1, 2, 3}

CatchNode == "catcher"

\* ec.Dispatch(event): the loops of Dispatch find the catcher handler, the
\* only handler registered, in the ALL_EVENTS list and call it
CatcherBeginDispatch(t, event) ==
    /\ At(t, "idle")
    /\ DispatchLocal(CatchNode, event, Bus).invoked # << >>
    /\ Goto(t, [Call(t) EXCEPT !.op = "Dispatch", !.pc = "Lock", !.ev = event])
    /\ UNCHANGED <<busVars, treeVars, lifeVars, ret, catcherVars>>

\* ec.EventsCount() or ec.EventsByVariantCount(eVar)
CatcherBeginRead(t, op, eVar) ==
    /\ At(t, "idle")
    /\ Goto(t, [Call(t) EXCEPT !.op = op, !.pc = "Lock", !.eventVariant = eVar])
    /\ UNCHANGED <<busVars, treeVars, lifeVars, ret, catcherVars>>

\* the statement after the Lock of each method
AfterLock(op) ==
    CASE op = "Dispatch" -> "evs"
      [] op = "EventsCount" -> "len"
      [] op = "EventsByVariantCount" -> "lenByVariant"

\* ec.mu.Lock(): blocks while another goroutine holds the mutex
CatcherLock_Skips(t) ==
    /\ At(t, "Lock")
    /\ Goto(t, [Call(t) EXCEPT !.pc = AfterLock(Call(t).op)])
    /\ UNCHANGED <<busVars, treeVars, lifeVars, ret, catcherVars>>

CatcherLock(t) ==
    /\ At(t, "Lock")
    /\ mu = 0
    /\ mu' = t
    /\ Goto(t, [Call(t) EXCEPT !.pc = AfterLock(Call(t).op)])
    /\ UNCHANGED <<busVars, treeVars, lifeVars, ret, evs, evsByVariant>>

\* append(ec.evs, ev): the list is read
CatchReadEvs(t) ==
    /\ At(t, "evs")
    /\ Goto(t, [Call(t) EXCEPT !.read = evs, !.pc = "evs="])
    /\ UNCHANGED <<busVars, treeVars, lifeVars, ret, catcherVars>>

\* ec.evs = append(ec.evs, ev)
CatchWriteEvs(t) ==
    /\ At(t, "evs=")
    /\ evs' = Append(Call(t).read, Call(t).ev)
    /\ Goto(t, [Call(t) EXCEPT !.pc = "ok"])
    /\ UNCHANGED <<busVars, treeVars, lifeVars, ret, evsByVariant, mu>>

\* if _, ok := ec.evsByVariant[ev.Variant()]; !ok
CatchCheckVariant(t) ==
    /\ At(t, "ok")
    /\ LET ok == Call(t).ev.variant \in DOMAIN evsByVariant
       IN  Goto(t, [Call(t) EXCEPT !.ok = ok,
                                   !.pc = IF ok THEN "byVariant" ELSE "make"])
    /\ UNCHANGED <<busVars, treeVars, lifeVars, ret, catcherVars>>

\* ec.evsByVariant[ev.Variant()] = make([]EventI, 0)
CatchMakeList(t) ==
    /\ At(t, "make")
    /\ evsByVariant' = MapPut(evsByVariant, Call(t).ev.variant, << >>)
    /\ Goto(t, [Call(t) EXCEPT !.pc = "byVariant"])
    /\ UNCHANGED <<busVars, treeVars, lifeVars, ret, evs, mu>>

\* append(ec.evsByVariant[ev.Variant()], ev): the list is read
CatchReadByVariant(t) ==
    /\ At(t, "byVariant")
    /\ Goto(t, [Call(t) EXCEPT !.read = evsByVariant[Call(t).ev.variant],
                               !.pc = "byVariant="])
    /\ UNCHANGED <<busVars, treeVars, lifeVars, ret, catcherVars>>

\* ec.evsByVariant[ev.Variant()] = append(..., ev)
CatchWriteByVariant(t) ==
    /\ At(t, "byVariant=")
    /\ evsByVariant' = MapPut(evsByVariant, Call(t).ev.variant,
                              Append(Call(t).read, Call(t).ev))
    /\ Goto(t, [Call(t) EXCEPT !.pc = "Unlock"])
    /\ UNCHANGED <<busVars, treeVars, lifeVars, ret, evs, mu>>

\* return len(ec.evs)
ReadEventsCount(t) ==
    /\ At(t, "len")
    /\ Goto(t, [Call(t) EXCEPT !.count = EventsCount, !.pc = "Unlock"])
    /\ UNCHANGED <<busVars, treeVars, lifeVars, ret, catcherVars>>

\* evs, ok := ec.evsByVariant[eVar]; if !ok { return 0 }; return len(evs)
ReadEventsByVariantCount(t) ==
    /\ At(t, "lenByVariant")
    /\ Goto(t, [Call(t) EXCEPT !.count = EventsByVariantCount(Call(t).eventVariant),
                               !.pc = "Unlock"])
    /\ UNCHANGED <<busVars, treeVars, lifeVars, ret, catcherVars>>

\* the deferred ec.mu.Unlock()
CatcherUnlock(t) ==
    /\ At(t, "Unlock")
    /\ mu' = 0
    /\ Goto(t, [Call(t) EXCEPT !.pc = "return"])
    /\ UNCHANGED <<busVars, treeVars, lifeVars, ret, evs, evsByVariant>>

\* the method returns: a reader its count; CatchEvent to the catcher
\* handler, which returns false to Dispatch, which returns
CatcherReturn(t) ==
    /\ At(t, "return")
    /\ ret' = IF Call(t).op = "Dispatch"
              THEN [op |-> "Dispatch", node |-> CatchNode, event |-> Call(t).ev,
                    visited |-> <<CatchNode>>,
                    invoked |-> DispatchLocal(CatchNode, Call(t).ev, Bus).invoked,
                    overflow |-> FALSE]
              ELSE [op |-> Call(t).op, count |-> Call(t).count]
    /\ Goto(t, [Call(t) EXCEPT !.pc = "done"])
    /\ UNCHANGED <<busVars, treeVars, lifeVars, catcherVars>>

NextCatcherThreads ==
    \E t \in CatcherThreads :
        \/ \E event \in Events : CatcherBeginDispatch(t, event)
        \/ CatcherBeginRead(t, "EventsCount", None)
        \/ \E eVar \in EventVariants : CatcherBeginRead(t, "EventsByVariantCount", eVar)
        \/ CatcherLock(t)
        \/ CatchReadEvs(t) \/ CatchWriteEvs(t) \/ CatchCheckVariant(t)
        \/ CatchMakeList(t) \/ CatchReadByVariant(t) \/ CatchWriteByVariant(t)
        \/ ReadEventsCount(t) \/ ReadEventsByVariantCount(t)
        \/ CatcherUnlock(t) \/ CatcherReturn(t)

InitCatcherThreads ==
    /\ InitOn(CatcherNodes)
    /\ inflight = [NoCalls EXCEPT !.serialized = FALSE,
                                  !.t = [t \in CatcherThreads |-> Idle]]

SpecCatcherThreads == InitCatcherThreads /\ [][NextCatcherThreads]_vars

\* ================================================================== claims
\* What the claims read from a finished Dispatch call.  `ret` is set by
\* every action; with handlers that only return a value Dispatch changes
\* nothing else, so in a state with ret.op = "Dispatch" the tables are those
\* the call ran on.
Dispatched == ret.op = "Dispatch"

Range(seq) == { seq[i] : i \in DOMAIN seq }

\* the handler calls of the last Dispatch that were made at node n
InvokedAt(n) == SelectSeq(ret.invoked, LAMBDA r : r.node = n)

\* <<key, idx>> of every call made at node n, in call order
SlotsInvokedAt(n) ==
    [i \in DOMAIN InvokedAt(n) |-> <<InvokedAt(n)[i].key, InvokedAt(n)[i].idx>>]

AllReturnedTrue(n) == \A r \in Range(InvokedAt(n)) : r.result

\* the registrations of node n under `key` that were not removed, as
\* <<key, idx>>, in registration order (from the history, not from the tables)
RECURSIVE LiveRegistrations(_, _, _)
LiveRegistrations(n, key, id) ==
    IF id >= Len(registered[n]) THEN << >>
    ELSE LET r == registered[n][id + 1]
             rest == LiveRegistrations(n, key, id + 1)
         IN  IF r.variant = key /\ id \notin removed[n]
             THEN << <<key, r.idx>> >> \o rest
             ELSE rest

\* the parent chain of n: n, parent(n), parent(parent(n)), ...
RECURSIVE ParentChain(_, _)
ParentChain(n, fuel) ==
    IF parent[n] = Nil \/ fuel = 0 THEN <<n>>
    ELSE <<n>> \o ParentChain(parent[n], fuel - 1)

\* C1: a visited node that has a parent forwards the event to that parent
\* if and only if every handler called at the node returned true (a node at
\* which no handler was called forwards).
C1_ForwardIffAllTrue ==
    Dispatched =>
        \A i \in DOMAIN ret.visited :
            LET n == ret.visited[i]
            IN  /\ parent[n] # Nil =>
                      ((i < Len(ret.visited)) <=> AllReturnedTrue(n))
                /\ i < Len(ret.visited) => ret.visited[i + 1] = parent[n]

\* C1 witness: one Dispatch in which a node without handlers forwarded, the
\* next node vetoed although it has a parent, and the forwarding stopped there.
C1_Witness ==
    /\ Dispatched
    /\ Len(ret.visited) = 2
    /\ InvokedAt(ret.visited[1]) = << >>
    /\ parent[ret.visited[2]] # Nil
    /\ ~AllReturnedTrue(ret.visited[2])

\* the position in the chain of the first node at which a handler returned
\* false, or the chain's length when there is none
RECURSIVE FirstVeto(_, _)
FirstVeto(chain, i) ==
    IF i >= Len(chain) THEN Len(chain)
    ELSE IF ~AllReturnedTrue(chain[i]) THEN i
    ELSE FirstVeto(chain, i + 1)

\* C2: the nodes that see a dispatched event are exactly the prefix of the
\* parent chain of the node it was dispatched on that ends at the first
\* vetoing node, or at the root when no handler vetoes; handlers run at
\* those nodes only.
C2_VisitedIsChainPrefix ==
    Dispatched =>
        LET chain == ParentChain(ret.node, Cardinality(Nodes))
        IN  /\ ret.visited = SubSeq(chain, 1, FirstVeto(chain, 1))
            /\ { r.node : r \in Range(ret.invoked) } \subseteq Range(ret.visited)

\* C2 witness: an event dispatched on the leaf of the three-node chain whose
\* sibling is attached, vetoed at the middle node.
C2_Witness ==
    /\ Dispatched
    /\ ret.node = "cutter"
    /\ parent["other"] = "adder"
    /\ parent["adder"] = "root"
    /\ ret.visited = <<"cutter", "adder">>
    /\ InvokedAt("adder") # << >>

\* C3: Dispatch on a node calls exactly the not-removed handlers registered
\* for the event's variant, in registration order, and then the not-removed
\* handlers registered for ALL_EVENTS, in registration order.
C3_InvokesLiveHandlersInOrder ==
    Dispatched =>
        SlotsInvokedAt(ret.node) =
            LiveRegistrations(ret.node, ret.event.variant, 0)
                \o LiveRegistrations(ret.node, ALL_EVENTS, 0)

\* C4: when a handler of a node returns false, the live handlers of that
\* node that come after it (for the event's variant and for ALL_EVENTS) are
\* still called in the same Dispatch.
C4_NoShortCircuit ==
    Dispatched =>
        \A n \in Range(ret.visited) :
            Len(InvokedAt(n)) =
                Len(LiveRegistrations(n, ret.event.variant, 0))
                    + Len(LiveRegistrations(n, ALL_EVENTS, 0))

\* C5: a handler whose id RemoveEventListener was called with is not called
\* by any later Dispatch, on its node or propagating to it.
C5_RemovedNeverInvoked ==
    Dispatched =>
        \A r \in Range(ret.invoked) :
            \A id \in removed[r.node] :
                ~ (/\ registered[r.node][id + 1].variant = r.key
                   /\ registered[r.node][id + 1].idx = r.idx)

\* C5 witness: a Dispatch reached, by propagation, a node that holds a
\* removed registration matching the event and a live one, which was called.
C5_Witness ==
    /\ Dispatched
    /\ \E n \in Range(ret.visited) :
          /\ n # ret.node
          /\ InvokedAt(n) # << >>
          /\ \E id \in removed[n] :
                registered[n][id + 1].variant \in {ret.event.variant, ALL_EVENTS}

\* C6: within one Dispatch no registration of any node is called twice,
\* whatever the variant of the event.
C6_AtMostOncePerDispatch ==
    Dispatched =>
        \A i, j \in DOMAIN ret.invoked :
            (/\ ret.invoked[i].node = ret.invoked[j].node
             /\ ret.invoked[i].key = ret.invoked[j].key
             /\ ret.invoked[i].idx = ret.invoked[j].idx) => i = j

\* C7: every live ALL_EVENTS handler of every node the event is dispatched
\* on or propagates to is called.
C7_WildcardAlwaysInvoked ==
    Dispatched =>
        \A n \in Range(ret.visited) :
            \A slot \in Range(LiveRegistrations(n, ALL_EVENTS, 0)) :
                \E r \in Range(InvokedAt(n)) : r.key = slot[1] /\ r.idx = slot[2]

\* ------------------------------------------------------- lifecycle claims
\* C8: in any sequence of Build() calls the OnBuild hook of every node has
\* been called at most once, and exactly once for the node Build() was last
\* called on.
C8_BuildHookAtMostOnce ==
    /\ \A n \in Nodes : buildCallCount[n] <= 1
    /\ ret.op = "Build" => buildCallCount[ret.node] = 1

\* C9: in any sequence of Start() calls the OnStart hook of every node has
\* been called at most once, and exactly once for the node Start() was last
\* called on.
C9_StartHookAtMostOnce ==
    /\ \A n \in Nodes : startCallCount[n] <= 1
    /\ ret.op = "Start" => startCallCount[ret.node] = 1

\* the nodes reachable from the nodes of S through the dependency lists of
\* nodes that are not skipped (skip[m]: the broadcast does not enter m)
RECURSIVE ReachableFrom(_, _)
ReachableFrom(S, skip) ==
    LET more == S \cup UNION { Attached(m) : m \in { x \in S : ~skip[x] } }
    IN  IF more = S THEN S ELSE ReachableFrom(more, skip)

NoSkip == [n \in Nodes |-> FALSE]

\* C10 as stated: after a Build() (Start()) call returned without a hook
\* failure, the node and every node reachable from it through dependency
\* lists is built (started).
C10_ReachableAllDone ==
    /\ (ret.op = "Build" /\ ~ret.failed) =>
           \A m \in ReachableFrom({ret.node}, NoSkip) : built[m]
    /\ (ret.op = "Start" /\ ~ret.failed) =>
           \A m \in ReachableFrom({ret.node}, NoSkip) : started[m]

\* C10 amended: after a Build() call on a node returns without a hook
\* failure, that node is built, and so is every node reachable from it
\* through the dependency lists of nodes that were not yet built when the
\* call began (a node that is already built is skipped with its
\* dependencies); the same for Start() and started.
C10_ReachableThroughNewAllDone ==
    [][/\ (ret'.op = "Build" /\ ~ret'.failed) =>
              \A m \in ReachableFrom({ret'.node}, built) : built'[m]
       /\ (ret'.op = "Start" /\ ~ret'.failed) =>
              \A m \in ReachableFrom({ret'.node}, started) : started'[m]
      ]_vars

\* C10 witness: one Build() on the root of the fully wired tree called the
\* hooks of all four nodes.
C10_Witness ==
    /\ ret.op = "Build" /\ ret.node = "root" /\ ~ret.failed
    /\ Len(ret.hooks) = 4
    /\ \A n \in Nodes : built[n]

\* the position of node n in the hooks called by the last Build()/Start()
\* call (0 when its hook was not called)
HookPos(n) ==
    IF n \in Range(ret.hooks)
    THEN CHOOSE i \in DOMAIN ret.hooks : ret.hooks[i] = n
    ELSE 0

\* C11: among the hooks called by one Build() (or Start()) call, each hook
\* is called once, the first is the hook of the node the call was made on,
\* the hook of a node comes before the hook of each of its dependencies, and
\* for two dependencies of one node the hooks of the whole subtree of the
\* one attached earlier come before the hook of the one attached later
\* (attachments: the order in which the AddDependency calls returned).
C11_HooksPreOrder ==
    ret.op \in {"Build", "Start"} =>
        /\ \A i, j \in DOMAIN ret.hooks : ret.hooks[i] = ret.hooks[j] => i = j
        /\ ret.hooks # << >> => ret.hooks[1] = ret.node
        /\ \A n \in Range(ret.hooks) : \A d \in Attached(n) :
               d \in Range(ret.hooks) => HookPos(n) < HookPos(d)
        /\ \A n \in Nodes : \A a, b \in DOMAIN attachments[n] :
               (a < b /\ attachments[n][b] \in Range(ret.hooks)) =>
                   \A x \in ReachableFrom({attachments[n][a]}, NoSkip) :
                       x \in Range(ret.hooks) =>
                           HookPos(x) < HookPos(attachments[n][b])

\* ---------------------------------------------------------- wiring claims
\* the declared fields of owner s whose type is exactly the type of dep, and
\* those dep can be assigned to, as positions in declaration order
ExactSlots(s, dep) ==
    { i \in DOMAIN SlotsOf(TypeOf(s)) : SlotsOf(TypeOf(s))[i][2] = TypeOf(dep) }
AssignableSlots(s, dep) ==
    { i \in DOMAIN SlotsOf(TypeOf(s)) : AssignableTo(TypeOf(dep), SlotsOf(TypeOf(s))[i][2]) }
SlotNameAt(s, i) == SlotsOf(TypeOf(s))[i][1]

\* C12: an AddDependency(dep) call on owner s that returns, where s declares
\* a field of exactly dep's type, has set that field to dep, has set dep's
\* parent to s, and has appended dep to the list of dependencies of s (the
\* list Dependencies() returns); the three effects are one step.
C12_AttachSetsSlotParentAndList ==
    [][\A s, dep \in WiringNodes :
          (/\ ret'.op = "AddDependency" /\ ret'.node = s /\ ret'.dep = dep
           /\ ~ret'.panic
           /\ ExactSlots(s, dep) # {}) =>
              /\ \E i \in ExactSlots(s, dep) : slots'[s][SlotNameAt(s, i)] = dep
              /\ parent'[dep] = s
              /\ FieldServices(s)' = Append(FieldServices(s), dep)
      ]_vars

\* C13: an AddDependency(dep) call on an owner that declares no field of
\* exactly dep's type and no field dep is assignable to panics, and it
\* leaves the fields, the parents and the dependency lists as they were.
C13_PanicsWithoutSlot ==
    [][\A s, dep \in WiringNodes :
          (/\ ret'.op = "AddDependency" /\ ret'.node = s /\ ret'.dep = dep
           /\ ExactSlots(s, dep) = {}
           /\ AssignableSlots(s, dep) = {}) =>
              ret'.panic /\ UNCHANGED treeVars
      ]_vars

\* C13 witness: the adder, with its cutter attached, was asked to take a
\* NonsenseService, for which AdderService declares no field, and panicked.
C13_Witness ==
    /\ ret.op = "AddDependency" /\ ret.node = "adder" /\ ret.dep = "nonsense"
    /\ ret.panic
    /\ slots["adder"]["CutterService"] = "cutter"
    /\ parent["nonsense"] = Nil

\* the smallest position of a non-empty set of field positions
FirstOf(S) == CHOOSE i \in S : \A j \in S : i <= j

\* the field the two rules select for dep on owner s: the first field of
\* exactly dep's type, else the first field dep is assignable to (0: none)
ResolvedSlot(s, dep) ==
    IF ExactSlots(s, dep) # {} THEN FirstOf(ExactSlots(s, dep))
    ELSE IF AssignableSlots(s, dep) # {} THEN FirstOf(AssignableSlots(s, dep))
    ELSE 0

\* C14: whenever the owner declares a field of exactly dep's type, or
\* failing that a field dep is assignable to, AddDependency(dep) returns and
\* has set the field the two rules select (exact type first, else the first
\* assignable field in declaration order), whatever the field is called.
C14_ResolvesByTypeNotName ==
    (ret.op = "AddDependency" /\ ResolvedSlot(ret.node, ret.dep) # 0) =>
        /\ ~ret.panic
        /\ slots[ret.node][SlotNameAt(ret.node, ResolvedSlot(ret.node, ret.dep))] = ret.dep

\* the services of a list, each once, in the order of their first entry
RECURSIVE EachOnce(_)
EachOnce(seq) ==
    IF seq = << >> THEN << >>
    ELSE LET front == EachOnce(SubSeq(seq, 1, Len(seq) - 1))
             last == seq[Len(seq)]
         IN  IF last \in Range(front) THEN front ELSE Append(front, last)

\* C15: Dependencies() on a node returns the services attached to it by
\* the AddDependency calls that returned, each once, in the order in which
\* they were attached.
C15_DependenciesInAttachmentOrder ==
    (ret.op = "Dependencies" /\ ~ret.panic) =>
        ret.services = EachOnce(attachments[ret.node])

\* following parent references from n ends at a node without parent
RECURSIVE ReachesRoot(_, _)
ReachesRoot(n, fuel) ==
    IF parent[n] = Nil THEN TRUE
    ELSE IF fuel = 0 THEN FALSE
    ELSE ReachesRoot(parent[n], fuel - 1)

\* s and the nodes above it
Ancestors(s) == Range(ParentChain(s, Cardinality(WiringNodes)))

\* C16: every AddDependency call leaves the parent relation a forest
\* (following parents from any node ends), never changes a parent that is
\* set, and panics, changing nothing, when the dependency already has a
\* parent or is the owner or a node above the owner.
C16_ParentForestAssignedOnce ==
    [][/\ \A n \in WiringNodes : ReachesRoot(n, Cardinality(WiringNodes))'
       /\ \A n \in WiringNodes : parent[n] # Nil => parent'[n] = parent[n]
       /\ \A s, dep \in WiringNodes :
             (/\ ret'.op = "AddDependency" /\ ret'.node = s /\ ret'.dep = dep
              /\ (parent[dep] # Nil \/ dep \in Ancestors(s))) =>
                 ret'.panic /\ UNCHANGED treeVars
      ]_vars

\* ------------------------------------------------------------- bus claims
\* C17: on every node the ids AddEventListener returned are strictly
\* increasing in call order (so pairwise distinct, and an id that was
\* removed is not returned again), whatever the variants registered and
\* whatever was removed in between.
C17_IdsStrictlyIncreasing ==
    \A n \in Nodes : \A i, j \in DOMAIN registered[n] :
        i < j => registered[n][i].id < registered[n][j].id

\* C17 witness: AddEventListener has just returned the second id of a node
\* whose first registration, under another variant, was removed before.
C17_Witness ==
    /\ ret.op = "AddEventListener" /\ ret.eventId = 1
    /\ \E n \in Nodes :
          /\ Len(registered[n]) = 2
          /\ registered[n][2].id = ret.eventId
          /\ registered[n][1].id \in removed[n]
          /\ registered[n][1].variant # registered[n][2].variant

\* the ids AddEventListener has returned on node n
IssuedIds(n) == { registered[n][i].id : i \in DOMAIN registered[n] }

\* C18: a RemoveEventListener call with an id that was never issued on the
\* node, or that RemoveEventListener was already called with, returns
\* leaving the counter, the two id maps and the handler lists of every node
\* as they were (so a dispatch after it does what it did before it).
C18_RemoveIdempotent ==
    [][\A s \in Nodes :
          (/\ ret'.op = "RemoveEventListener" /\ ret'.node = s
           /\ (ret'.eventId \notin IssuedIds(s) \/ ret'.eventId \in removed[s])) =>
              UNCHANGED <<eventHandlersCount, variantByEventId,
                          eventHandlerIdxByEventId, eventHandlersByVariant>>
      ]_vars

\* C18 witness: RemoveEventListener was called with an id the node has not
\* issued; the node's one registration is still in the maps and its handler
\* still in its list.
C18_Witness ==
    /\ ret.op = "RemoveEventListener"
    /\ IssuedIds(ret.node) = {0}
    /\ ret.eventId \notin IssuedIds(ret.node)
    /\ removed[ret.node] = {}
    /\ DOMAIN variantByEventId[ret.node] = {0}
    /\ eventHandlersByVariant[ret.node][variantByEventId[ret.node][0]] # <<Nil>>

\* C19: after RemoveEventListener calls on a node, a Dispatch that reaches
\* the node calls none of the removed handlers and calls every other
\* registration of the node that matches the event, those under the event's
\* variant and then those under ALL_EVENTS, in registration order: each
\* removal has disabled the handler of its id and no other.
C19_RemovalDisablesOnlyItsHandler ==
    Dispatched =>
        \A n \in Range(ret.visited) :
            removed[n] # {} =>
                EachOnce(SlotsInvokedAt(n)) =
                    EachOnce(LiveRegistrations(n, ret.event.variant, 0)
                                 \o LiveRegistrations(n, ALL_EVENTS, 0))

\* the handler registered on node n in slot <<key, idx>>
FnOf(n, slot) ==
    LET r == CHOOSE x \in Range(registered[n]) : x.variant = slot[1] /\ x.idx = slot[2]
    IN  r.fn
\* the slot of the registration of node n with the id `id`
SlotOfId(n, id) == <<registered[n][id + 1].variant, registered[n][id + 1].idx>>

\* C20: in a Dispatch during which a handler called RemoveEventListener on
\* its own node with the id of a handler that was live, the handlers that match the event and were removed neither
\* before nor during the Dispatch are each called once, those of the event's
\* variant and then those of ALL_EVENTS, in registration order; and after a
\* handler has removed an id, the handler of that id is not called.
C20_RemovalDuringDispatch ==
    [][\A n \in Nodes, e \in Events :
          (/\ ret'.op = "Dispatch" /\ ret'.node = n /\ ret'.event = e
           /\ \E slot \in Range(SlotsInvokedAt(n)') :
                 /\ FnOf(n, slot) \in Removers
                 /\ RemovedBy(FnOf(n, slot)) \in IssuedIds(n) \ removed[n]) =>
              LET called == SlotsInvokedAt(n)'
                  stay == LiveRegistrations(n, e.variant, 0)'
                              \o LiveRegistrations(n, ALL_EVENTS, 0)'
              IN  /\ SelectSeq(called, LAMBDA slot : slot \in Range(stay)) = EachOnce(stay)
                  /\ \A p, q \in DOMAIN called :
                        (/\ p < q
                         /\ FnOf(n, called[p]) \in Removers
                         /\ RemovedBy(FnOf(n, called[p])) \in IssuedIds(n)) =>
                            called[q] # SlotOfId(n, RemovedBy(FnOf(n, called[p])))
      ]_vars

\* ---------------------------------------------- lifecycle failure claims
Last(seq) == seq[Len(seq)]

\* C21: when a hook fails during a Build() (Start()) call, the call returns
\* the failure to its caller, the node whose hook failed (the last hook the
\* call made) is not built (started), every node whose hook the call made
\* before is built (started), and no node that was built (started) before
\* the call has lost its flag.
C21_FailureLeavesEarlierDone ==
    [][/\ (ret'.op = "Build" /\ ret'.failed) =>
              /\ ret'.hooks # << >>
              /\ ~built'[Last(ret'.hooks)]
              /\ \A i \in 1 .. Len(ret'.hooks) - 1 : built'[ret'.hooks[i]]
              /\ \A n \in Nodes : built[n] => built'[n]
              /\ started' = started
       /\ (ret'.op = "Start" /\ ret'.failed) =>
              /\ ret'.hooks # << >>
              /\ ~started'[Last(ret'.hooks)]
              /\ \A i \in 1 .. Len(ret'.hooks) - 1 : started'[ret'.hooks[i]]
              /\ \A n \in Nodes : started[n] => started'[n]
              /\ built' = built
      ]_vars

\* C21 witness: a Build() on the root of the wired tree failed at the hook
\* of the adder's second dependency; root, adder and the first dependency
\* stay built.
C21_Witness ==
    /\ ret.op = "Build" /\ ret.node = "root" /\ ret.failed
    /\ Len(ret.hooks) = 4
    /\ ~built[ret.hooks[4]]
    /\ built["root"] /\ built["adder"] /\ built[ret.hooks[3]]

\* C22: when a Build() on the root has failed at the hook of some node (the
\* root or a descendant) and Build() is called on the root again, the second
\* call calls the hook of the node that failed, leaves that node and every
\* node of its subtree built when no hook fails again, and does not call the
\* hook of any node that was already built.
C22_RetryResumesAtFailedNode ==
    [][(/\ ret.op = "Build" /\ ret.failed /\ parent[ret.node] = Nil
        /\ ret'.op = "Build" /\ ret'.node = ret.node /\ ret' # ret)
       => LET f == Last(ret.hooks)
          IN  /\ f \in Range(ret'.hooks)
              /\ ~ret'.failed => \A m \in ReachableFrom({f}, NoSkip) : built'[m]
              /\ \A m \in Nodes : built[m] => m \notin Range(ret'.hooks)
      ]_vars

\* C23: the two lifecycle flags are independent.  A Build() call leaves
\* every started flag and every OnStart count as it was, a Start() call
\* leaves every built flag and every OnBuild count as it was, and a call on
\* a node whose own flag is unset calls that node's hook first and, unless a
\* hook fails, sets the flag, whatever the other flag of the node is.
C23_BuiltStartedIndependent ==
    [][/\ ret'.op = "Build" =>
              /\ started' = started /\ startCallCount' = startCallCount
              /\ \A n \in Nodes :
                     (ret'.node = n /\ ~built[n] /\ vars' # vars) =>
                         /\ ret'.hooks # << >> /\ ret'.hooks[1] = n
                         /\ buildCallCount'[n] = buildCallCount[n] + 1
                         /\ ret'.failed \/ built'[n]
       /\ ret'.op = "Start" =>
              /\ built' = built /\ buildCallCount' = buildCallCount
              /\ \A n \in Nodes :
                     (ret'.node = n /\ ~started[n] /\ vars' # vars) =>
                         /\ ret'.hooks # << >> /\ ret'.hooks[1] = n
                         /\ startCallCount'[n] = startCallCount[n] + 1
                         /\ ret'.failed \/ started'[n]
      ]_vars

\* C23 witness: Start() on a wired node that was never built returned; the
\* node and its dependency are started, no OnBuild was called, none is built.
C23_Witness ==
    /\ ret.op = "Start" /\ ~ret.failed /\ Len(ret.hooks) >= 2
    /\ \A i \in DOMAIN ret.hooks :
           /\ started[ret.hooks[i]] /\ ~built[ret.hooks[i]]
           /\ buildCallCount[ret.hooks[i]] = 0

VisitPos(n) == CHOOSE k \in DOMAIN ret.visited : ret.visited[k] = n

\* C25: within one Dispatch call the nodes are visited along the parent
\* chain, every handler call at a node is made before any handler call at
\* its parent (or a further ancestor), and when the call has returned the
\* handlers of the last node the propagation reached have been called.
C25_CallsOrderedByLevel ==
    (Dispatched /\ ~ret.overflow) =>
        /\ \A k \in 1 .. Len(ret.visited) - 1 :
               ret.visited[k + 1] = parent[ret.visited[k]]
        /\ \A i \in DOMAIN ret.invoked : ret.invoked[i].node \in Range(ret.visited)
        /\ \A i, j \in DOMAIN ret.invoked :
               i < j => VisitPos(ret.invoked[i].node) <= VisitPos(ret.invoked[j].node)
        /\ LET last == ret.visited[Len(ret.visited)]
           IN  (LiveRegistrations(last, ret.event.variant, 0)
                    \o LiveRegistrations(last, ALL_EVENTS, 0)) # << >>
               => InvokedAt(last) # << >>

\* C25 witness: an event dispatched on the cutter called a handler there,
\* bubbled through the adder and called a handler at the root before the
\* call returned.
C25_Witness ==
    /\ Dispatched /\ ret.visited = <<"cutter", "adder", "root">>
    /\ Len(ret.invoked) = 2
    /\ ret.invoked[1].node = "cutter" /\ ret.invoked[2].node = "root"

\* ------------------------------------------------ dispatch on wired graphs
\* C26: on every graph AddDependency calls have produced, with handlers that
\* only return a value, a Dispatch returns without error (the recursion
\* through propagateEvent ends), has visited no node twice, has followed the
\* parent references, and ended at a node that has no parent or at which a
\* handler returned false.
C26_DispatchTerminates ==
    Dispatched =>
        /\ ~ret.overflow
        /\ \A i, j \in DOMAIN ret.visited :
               ret.visited[i] = ret.visited[j] => i = j
        /\ \A k \in 1 .. Len(ret.visited) - 1 :
               ret.visited[k + 1] = parent[ret.visited[k]]
        /\ LET last == ret.visited[Len(ret.visited)]
           IN  parent[last] = Nil \/ ~AllReturnedTrue(last)

\* ------------------------------------------------------- concurrency claims
\* every goroutine has made its call and the call has returned
AllReturned == ~inflight.fatal /\ \A t \in Threads : Call(t).pc = "done"

\* no two AddEventListener calls on the node returned the same id
IdsDistinct ==
    \A i, j \in DOMAIN registered[BusNode] :
        registered[BusNode][i].id = registered[BusNode][j].id => i = j

\* the tables hold what the calls that returned have registered and removed:
\* the counter counts the registrations, a registration that was not removed
\* has its variant and index in the two maps and its handler at that index,
\* and a removed one is in neither map and has nil at its index
BookkeepingIntact ==
    /\ eventHandlersCount[BusNode] = Len(registered[BusNode])
    /\ \A i \in DOMAIN registered[BusNode] :
           LET r == registered[BusNode][i]
               eventHandlers == HandlersOf(BusNode, r.variant)
           IN  /\ r.idx < Len(eventHandlers)
               /\ IF r.id \in removed[BusNode]
                  THEN /\ r.id \notin DOMAIN variantByEventId[BusNode]
                       /\ r.id \notin DOMAIN eventHandlerIdxByEventId[BusNode]
                       /\ eventHandlers[r.idx + 1] = Nil
                  ELSE /\ r.id \in DOMAIN variantByEventId[BusNode]
                       /\ r.id \in DOMAIN eventHandlerIdxByEventId[BusNode]
                       /\ variantByEventId[BusNode][r.id] = r.variant
                       /\ eventHandlerIdxByEventId[BusNode][r.id] = r.idx
                       /\ eventHandlers[r.idx + 1] = r.fn

\* C27: Service takes no lock, so goroutines calling AddEventListener and
\* RemoveEventListener on one node interleave statement by statement; a state
\* in which two AddEventListener calls have returned the same id, or the
\* tables no longer hold what a call registered or removed, or the runtime
\* has stopped the process, is reached only when the calls were not
\* serialized: with serialized calls the ids are distinct and the
\* bookkeeping is intact whenever no call is running.
C27_OnlyUnserializedCallsCorrupt ==
    inflight.serialized =>
        /\ ~inflight.fatal
        /\ (\A t \in Threads : ~Running(t)) => IdsDistinct /\ BookkeepingIntact

\* C27 witness: two goroutines called AddEventListener on the node without
\* serialization, with different variants; both calls returned the same id
\* and the id's variant in the map is that of the second goroutine only.
C27_Witness ==
    /\ ~inflight.serialized /\ AllReturned
    /\ Call(1).op = "AddEventListener" /\ Call(2).op = "AddEventListener"
    /\ Call(1).eventId = Call(2).eventId
    /\ Call(1).eventVariant # Call(2).eventVariant
    /\ variantByEventId[BusNode][Call(1).eventId] = Call(2).eventVariant

\* ----------------------------------------------------- wiring frame claims
\* the services in the dependency list of n (the non-nil entries of what
\* Dependencies() returns)
Listed(n) == Range(FieldServices(n)) \ {Nil}

\* C28: after any sequence of AddDependency calls every service in the
\* dependency list of a node has that node as its parent, and every node
\* that has a parent is in the dependency list of that parent and of no
\* other node.
C28_ListsAgreeWithParents ==
    /\ \A n \in WiringNodes : \A d \in Listed(n) : parent[d] = n
    /\ \A d \in WiringNodes :
           parent[d] # Nil =>
               \A n \in WiringNodes : (d \in Listed(n)) <=> (n = parent[d])

\* owner s declares a field for dep: one of exactly dep's type, or one dep is
\* assignable to
HasSlotFor(s, dep) == ExactSlots(s, dep) # {} \/ AssignableSlots(s, dep) # {}

\* C29: an AddDependency call that fails because the owner declares no field
\* for the dependency changes nothing (the parents, the fields and the
\* dependency lists of all nodes, and every other table, are as before the
\* call), and the next AddDependency call on the same owner with a
\* dependency the owner declares a field for succeeds: it sets the
\* dependency's parent to the owner and the dependency is in the owner's list.
C29_FailedAttachLeavesNoTrace ==
    [][\A s, dep \in WiringNodes :
          /\ (/\ ret'.op = "AddDependency" /\ ret'.node = s /\ ret'.dep = dep
              /\ ret'.panic /\ ~HasSlotFor(s, dep)) =>
                 UNCHANGED <<treeVars, busVars, lifeVars>>
          /\ (/\ ret.op = "AddDependency" /\ ret.node = s /\ ret.panic
              /\ \A failed \in WiringNodes : ret.dep = failed => ~HasSlotFor(s, failed)
              /\ ret'.op = "AddDependency" /\ ret'.node = s /\ ret'.dep = dep
              /\ ret' # ret
              /\ HasSlotFor(s, dep)) =>
                 /\ ~ret'.panic
                 /\ parent'[dep] = s
                 /\ dep \in Listed(s)'
      ]_vars

\* ------------------------------------------------ registration frame claim
\* the registration tables of node n
TablesOf(n) ==
    <<eventHandlersCount[n], variantByEventId[n], eventHandlerIdxByEventId[n],
      eventHandlersByVariant[n]>>

\* C30: an AddEventListener or RemoveEventListener call on a node A leaves
\* the counter, the two id maps and the handler lists of every other node,
\* and the parents, fields and dependency lists of all nodes, as they were;
\* in particular removing id k on A leaves the handler that has id k on
\* another node B registered and at its place in B's list.
C30_RegistrationsScopedToNode ==
    [][\A A \in Nodes :
          (\/ ret'.op = "AddEventListener" /\ registered'[A] # registered[A]
           \/ ret'.op = "RemoveEventListener" /\ ret'.node = A) =>
              /\ UNCHANGED treeVars
              /\ \A B \in Nodes \ {A} :
                     /\ TablesOf(B)' = TablesOf(B)
                     /\ registered'[B] = registered[B]
                     /\ removed'[B] = removed[B]
                     /\ \A k \in DOMAIN variantByEventId[B] :
                            /\ k \in DOMAIN variantByEventId'[B]
                            /\ k \in DOMAIN eventHandlerIdxByEventId'[B]
                            /\ HandlersFor(Bus, B, variantByEventId[B][k])'
                                   [eventHandlerIdxByEventId[B][k] + 1] # Nil
      ]_vars

\* C30 witness: adder and cutter each issued id 0; RemoveEventListener(0)
\* on the adder returned, the adder's handler is gone and the cutter's
\* handler with the same id is still registered.
C30_Witness ==
    /\ ret.op = "RemoveEventListener" /\ ret.node = "adder" /\ ret.eventId = 0
    /\ 0 \in removed["adder"] /\ 0 \notin DOMAIN variantByEventId["adder"]
    /\ 0 \in DOMAIN variantByEventId["cutter"]
    /\ HandlersFor(Bus, "cutter", variantByEventId["cutter"][0])
           [eventHandlerIdxByEventId["cutter"][0] + 1] # Nil

\* ------------------------------------------------ registration table claim
\* the ids of node n that both maps know
LiveIds(n) == DOMAIN variantByEventId[n]

\* the registration of node n that returned the id `id`
RegistrationOf(n, id) == registered[n][id + 1]

\* the number of AddEventListener calls node n has had for the variant key
RegisteredFor(n, key) ==
    Cardinality({ i \in DOMAIN registered[n] : registered[n][i].variant = key })

\* C33: after any sequence of AddEventListener and RemoveEventListener
\* calls on a node, its two id maps have the same keys (the ids issued and
\* not removed); each such id maps to the variant it was registered for and
\* to a position inside that variant's list, which holds the handler
\* registered under the id; two such ids never share a position; every
\* position no such id maps to holds nil; and each variant's list is as long
\* as the number of registrations ever made for the variant.
C33_TablesConsistent ==
    \A n \in Nodes :
        /\ DOMAIN eventHandlerIdxByEventId[n] = LiveIds(n)
        /\ LiveIds(n) = IssuedIds(n) \ removed[n]
        /\ \A id \in LiveIds(n) :
               LET key == variantByEventId[n][id]
                   idx == eventHandlerIdxByEventId[n][id]
               IN  /\ key = RegistrationOf(n, id).variant
                   /\ idx < Len(HandlersOf(n, key))
                   /\ HandlersOf(n, key)[idx + 1] = RegistrationOf(n, id).fn
                   /\ \A other \in LiveIds(n) \ {id} :
                          ~(/\ variantByEventId[n][other] = key
                            /\ eventHandlerIdxByEventId[n][other] = idx)
        /\ \A key \in DOMAIN eventHandlersByVariant[n] :
               /\ Len(eventHandlersByVariant[n][key]) = RegisteredFor(n, key)
               /\ \A i \in DOMAIN eventHandlersByVariant[n][key] :
                      (\A id \in LiveIds(n) :
                           ~(/\ variantByEventId[n][id] = key
                             /\ eventHandlerIdxByEventId[n][id] = i - 1))
                      => eventHandlersByVariant[n][key][i] = Nil
        /\ \A key \in ListenVariants :
               key \notin DOMAIN eventHandlersByVariant[n] => RegisteredFor(n, key) = 0

\* C33 witness: the node registered two handlers for one variant and one for
\* the other and removed the first: its position holds nil, the second
\* handler of the variant is still at position 1 and the list has length 2.
C33_Witness ==
    /\ Len(registered[BusNode]) = 3
    /\ registered[BusNode][1].variant = registered[BusNode][2].variant
    /\ removed[BusNode] = {0}
    /\ LiveIds(BusNode) = {1, 2}
    /\ eventHandlerIdxByEventId[BusNode][1] = 1
    /\ LET eventHandlers == HandlersOf(BusNode, registered[BusNode][1].variant)
       IN  Len(eventHandlers) = 2 /\ eventHandlers[1] = Nil /\ eventHandlers[2] # Nil

\* ---------------------------------------------------- EventCatcher claims
\* the per-variant counts of the catcher, summed over the variants
RECURSIVE SumByVariant(_)
SumByVariant(V) ==
    IF V = {} THEN 0
    ELSE LET v == CHOOSE x \in V : TRUE
         IN  EventsByVariantCount(v) + SumByVariant(V \ {v})

\* the service s is the one the catcher was given to listen to
ListenedTo(s) ==
    \/ slots["catcher"]["ListeningTo"] = s
    \/ ret.op = "AddDependency" /\ ret.node = "catcher" /\ ret.dep = s

\* C31: a Dispatch on the catcher, and a Dispatch that propagates from the
\* service the catcher was given as its ListeningTo dependency (all handlers
\* called there returned true), appends the event to the catcher's record
\* exactly once: EventsCount grows by one, LastEvent and NthEvent at the new
\* position are the event, the earlier positions are unchanged, the count of
\* the event's variant grows by one and the per-variant counts sum to
\* EventsCount; a Dispatch that visits the catcher goes no further (the
\* catcher's parent is not visited); and FlushEvents leaves every count 0.
C31_CatcherRecordsEachEventOnce ==
    [][/\ \A s \in CatcherNodes, e \in Events :
              (/\ ret'.op = "Dispatch" /\ ret'.node = s /\ ret'.event = e
               /\ ret' # ret \/ evs' # evs
               /\ \/ s = "catcher"
                  \/ ListenedTo(s) /\ AllReturnedTrue(s)') =>
                     /\ EventsCount' = EventsCount + 1
                     /\ LastEvent' = e
                     /\ \A idx \in 0 .. EventsCount - 1 : NthEvent(idx)' = NthEvent(idx)
                     /\ EventsByVariantCount(e.variant)' = EventsByVariantCount(e.variant) + 1
                     /\ SumByVariant(EventVariants)' = EventsCount'
       /\ (ret'.op = "Dispatch" /\ "catcher" \in Range(ret'.visited)) =>
              ret'.visited[Len(ret'.visited)] = "catcher"
       /\ ret'.op = "FlushEvents" =>
              /\ EventsCount' = 0
              /\ \A eVar \in EventVariants : EventsByVariantCount(eVar)' = 0
      ]_vars

\* the goroutines whose Dispatch on the catcher has left CatchEvent
Caught == { t \in DOMAIN inflight.t :
              /\ inflight.t[t].op = "Dispatch"
              /\ inflight.t[t].pc \in {"return", "done"} }

\* how often an event occurs in a list
Occurrences(list, ev) == Cardinality({ i \in 1..Len(list) : list[i] = ev })

\* the per-variant lists are the all-events list, split by variant
ListsAgree ==
    /\ \A v \in DOMAIN evsByVariant :
           /\ v \in EventVariants
           /\ evsByVariant[v] # << >>
    /\ \A v \in EventVariants :
           LET OfVariant(ev) == ev.variant = v
           IN  SelectSeq(evs, OfVariant) =
                   IF v \in DOMAIN evsByVariant THEN evsByVariant[v] ELSE << >>

\* C32: the recording state of an EventCatcher is protected by its mutex.
\* Whenever no CatchEvent holds the mutex (it is free, or a reader holds
\* it), EventsCount is exactly the number of events whose Dispatch on the
\* catcher has returned from CatchEvent, every such event is recorded as
\* often as it was dispatched, and the all-events list and the per-variant
\* lists agree; a reader reads the lists only while it holds the mutex, so
\* it never observes them in disagreement, and the count a reader returns
\* is never more than the number of events recorded.
C32_MutexProtectsRecording ==
    /\ (mu = 0 \/ inflight.t[mu].op # "Dispatch") =>
           /\ EventsCount = Cardinality(Caught)
           /\ \A ev \in Events :
                  Occurrences(evs, ev) =
                      Cardinality({ t \in Caught : inflight.t[t].ev = ev })
           /\ ListsAgree
    /\ \A t \in DOMAIN inflight.t :
           /\ inflight.t[t].pc \in {"evs", "evs=", "ok", "make", "byVariant",
                                    "byVariant=", "len", "lenByVariant", "Unlock"}
                  => mu = t
           /\ inflight.t[t].op = "EventsCount" => inflight.t[t].count <= EventsCount
           /\ inflight.t[t].op = "EventsByVariantCount" =>
                  inflight.t[t].count <= EventsByVariantCount(inflight.t[t].eventVariant)

\* two goroutines dispatched events of one variant on the catcher while a
\* third read EventsCount between the two recordings; all have returned
C32_Witness ==
    /\ DOMAIN inflight.t = CatcherThreads
    /\ \A t \in CatcherThreads : inflight.t[t].pc = "done"
    /\ inflight.t[1].op = "Dispatch" /\ inflight.t[2].op = "Dispatch"
    /\ inflight.t[1].ev.variant = inflight.t[2].ev.variant
    /\ inflight.t[3].op = "EventsCount" /\ inflight.t[3].count = 1
    /\ EventsCount = 2
    /\ EventsByVariantCount(inflight.t[1].ev.variant) = 2

====
